---- MODULE Spec2Model ----
(***************************************************************************)
(* The event_ticketing program (programs/event_ticketing): the Event,      *)
(* Ticket and OrganizerRegistry records, the per-event vault, and the      *)
(* seven instructions.  One action per instruction; an action is the       *)
(* account validation of the instruction's Accounts struct followed by the *)
(* handler body, committed only when the instruction returns Ok (the       *)
(* ledger discards every account change of a failed instruction).          *)
(*                                                                         *)
(* Addresses are program-derived: an address is the record of the seeds    *)
(* it is derived from, so two addresses are equal iff their seeds are.     *)
(* Lamports are tracked for wallets and vaults, where the handlers move    *)
(* them; the storage deposit a payer leaves with a created record is set   *)
(* by the ledger's rent schedule and is not part of the accounting here.   *)
(***************************************************************************)
EXTENDS Integers, Sequences, FiniteSets, TLC

\* ------------------------------------------------------------- bounds
\* the u32 of `supply` and `sold`, scaled to 0..MaxU32
MaxU32 == 2
MaxPrice == 1
InitLamports == 1
MaxTime == 1
MaxInflight == 2

\* ---------------------------------------------------------- constants
MAX_NAME_LEN == 50
MAX_DATE_LEN == 30

\* ------------------------------------------------------------- inputs
Keys == {"O", "A"}
Organizers == {"O", "A"}
EventIds == {1}
\* free, or the full balance of a wallet
Prices == {0, MaxPrice}
Supplies == 0..MaxU32
Times == 1..MaxTime
\* a text is known by its number of characters and its UTF-8 length
Text(c, b) == [chars |-> c, bytes |-> b]
NameInputs == {Text(3, 3), Text(MAX_NAME_LEN + 1, MAX_NAME_LEN + 1)}
DateInputs == {Text(10, 10), Text(MAX_DATE_LEN + 1, MAX_DATE_LEN + 1)}
\* the lengths around the limits: one-byte characters up to the limit, and
\* two-byte characters, as many characters as the limit allows
Names == NameInputs \cup {Text(MAX_NAME_LEN, MAX_NAME_LEN), Text(MAX_NAME_LEN, 2 * MAX_NAME_LEN)}
Dates == DateInputs \cup {Text(MAX_DATE_LEN, MAX_DATE_LEN), Text(MAX_DATE_LEN, 2 * MAX_DATE_LEN)}

\* ---------------------------------------------------------- addresses
Wallet(k) == [tag |-> "wallet", auth |-> k, eid |-> 0, idx |-> 0]
EventPda(authority, event_id) ==
    [tag |-> "event", auth |-> authority, eid |-> event_id, idx |-> 0]
TicketPda(e, sold) == [tag |-> "ticket", auth |-> e.auth, eid |-> e.eid, idx |-> sold]
VaultPda(e) == [tag |-> "vault", auth |-> e.auth, eid |-> e.eid, idx |-> 0]
OrganizerPda(k) == [tag |-> "organizer", auth |-> k, eid |-> 0, idx |-> 0]

Wallets == {Wallet(k) : k \in Keys}
Authorities == {Wallet(k) : k \in Organizers}
EventAddrs == {EventPda(a, i) : a \in Organizers, i \in EventIds}
TicketAddrs == {TicketPda(e, k) : e \in EventAddrs, k \in 0..MaxU32}
VaultAddrs == {VaultPda(e) : e \in EventAddrs}
OrganizerAddrs == {OrganizerPda(k) : k \in Organizers}
\* the accounts whose lamports the handlers move
Holders == Wallets \cup VaultAddrs

NoAddr == [tag |-> "none", auth |-> "", eid |-> 0, idx |-> 0]

VARIABLES
    events,     \* address -> Event record, for the events that exist
    tickets,    \* address -> Ticket record, for the tickets that exist
    registry,   \* address -> OrganizerRegistry record
    lamports,   \* holder -> balance
    last,       \* the last instruction processed and what it returned
    inflight,   \* mint_ticket transactions submitted and not yet processed
    batch       \* the event they were submitted against, and their tally

vars == <<events, tickets, registry, lamports, last, inflight, batch>>
ledger == <<events, tickets, registry, lamports>>
clients == <<inflight, batch>>

NoBatch == [event |-> NoAddr, sold0 |-> 0, size |-> 0, ok |-> 0, payable |-> FALSE]

\* the records of state.rs
Event ==
    [event_authority : Wallets, price : Nat, supply : 0..MaxU32, sold : 0..MaxU32,
     canceled : BOOLEAN, event_id : EventIds, name : Names, date : Dates]
Ticket ==
    [owner : Wallets, event : EventAddrs, ticket_id : 0..MaxU32,
     is_used : BOOLEAN, refunded : BOOLEAN]
OrganizerRegistry == [organizer : Wallets, registered_at : Times]

TypeOK ==
    /\ DOMAIN events \subseteq EventAddrs /\ \A e \in DOMAIN events : events[e] \in Event
    /\ DOMAIN tickets \subseteq TicketAddrs /\ \A t \in DOMAIN tickets : tickets[t] \in Ticket
    /\ DOMAIN registry \subseteq OrganizerAddrs
    /\ \A r \in DOMAIN registry : registry[r] \in OrganizerRegistry
    /\ \A h \in Holders : lamports[h] \in Nat

Call(op, result) == [op |-> op, result |-> result]

\* system_program::transfer: fails when `from` holds less than `amount`
CanTransfer(l, from, amount) == l[from] >= amount
Transfer(l, from, to, amount) ==
    LET debited == [l EXCEPT ![from] = @ - amount]
    IN  [debited EXCEPT ![to] = @ + amount]

Init ==
    /\ events = [a \in {} |-> 0]
    /\ tickets = [a \in {} |-> 0]
    /\ registry = [a \in {} |-> 0]
    /\ lamports = [h \in Holders |-> IF h \in Wallets THEN InitLamports ELSE 0]
    /\ last = Call("none", "Ok")
    /\ inflight = {}
    /\ batch = NoBatch

\* ------------------------------------------------------ initialize_event
\* InitializeEvent: `event` is created (init) at the address derived from
\* the signer and event_id; creation fails when the address is occupied.
\* mutant of InitializeEventAccounts: the address is derived from the
\* event_id alone, so the second authority collides with the first
InitializeEventAccounts_SeedsWithoutAuthority(signer, e, event_id) ==
    IF e # EventPda(signer.auth, event_id) THEN "ConstraintSeeds"
    ELSE IF \E x \in DOMAIN events : x.eid = event_id THEN "AccountAlreadyInUse"
    ELSE "Ok"

InitializeEventAccounts(signer, e, event_id) ==
    IF e # EventPda(signer.auth, event_id) THEN "ConstraintSeeds"
    ELSE IF e \in DOMAIN events THEN "AccountAlreadyInUse"
    ELSE "Ok"

\* mutant of InitializeEventResult: the limits themselves are refused
InitializeEventResult_StrictLimit(signer, e, event_id, name, date) ==
    LET a == InitializeEventAccounts(signer, e, event_id)
    IN  IF a # "Ok" THEN a
        ELSE IF ~(name.bytes < MAX_NAME_LEN) THEN "NameTooLong"
        ELSE IF ~(date.bytes < MAX_DATE_LEN) THEN "DateTooLong"
        ELSE "Ok"

InitializeEventResult(signer, e, event_id, name, date) ==
    LET a == InitializeEventAccounts(signer, e, event_id)
    IN  IF a # "Ok" THEN a
        ELSE IF ~(name.bytes <= MAX_NAME_LEN) THEN "NameTooLong"
        ELSE IF ~(date.bytes <= MAX_DATE_LEN) THEN "DateTooLong"
        ELSE "Ok"

\* mutant of initialize_event: init_if_needed, an existing event is
\* written over
initialize_event_InitIfNeeded(signer, e, event_id, price, supply, name, date) ==
    LET r == IF e # EventPda(signer.auth, event_id) THEN "ConstraintSeeds"
             ELSE IF ~(name.bytes <= MAX_NAME_LEN) THEN "NameTooLong"
             ELSE IF ~(date.bytes <= MAX_DATE_LEN) THEN "DateTooLong"
             ELSE "Ok"
    IN  /\ last' = Call("initialize_event", r)
        /\ IF r = "Ok"
           THEN /\ events' = (e :>
                      [event_authority |-> signer, price |-> price, supply |-> supply,
                       sold |-> 0, canceled |-> FALSE, event_id |-> event_id,
                       name |-> name, date |-> date]) @@ events
                /\ UNCHANGED <<tickets, registry, lamports>>
           ELSE UNCHANGED ledger

initialize_event(signer, e, event_id, price, supply, name, date) ==
    LET r == InitializeEventResult(signer, e, event_id, name, date)
    IN  /\ last' = Call("initialize_event", r)
        /\ IF r = "Ok"
           THEN /\ events' = events @@ (e :>
                      [event_authority |-> signer, price |-> price, supply |-> supply,
                       sold |-> 0, canceled |-> FALSE, event_id |-> event_id,
                       name |-> name, date |-> date])
                /\ UNCHANGED <<tickets, registry, lamports>>
           ELSE UNCHANGED ledger

\* ----------------------------------------------------------- mint_ticket
\* MintTicket: `event` must be an Event record; `ticket` is created (init)
\* at the address derived from the event and its current `sold`; `vault`
\* must be the address derived from the event.
MintTicketAccounts(buyer, e, t, v) ==
    IF e \notin DOMAIN events THEN "AccountNotInitialized"
    ELSE IF t # TicketPda(e, events[e].sold) THEN "ConstraintSeeds"
    ELSE IF t \in DOMAIN tickets THEN "AccountAlreadyInUse"
    ELSE IF v # VaultPda(e) THEN "ConstraintSeeds"
    ELSE "Ok"

\* mutants of MintTicketResult
MintTicketResult_NoSoldOutCheck(buyer, e, t, v) ==
    LET a == MintTicketAccounts(buyer, e, t, v)
    IN  IF a # "Ok" THEN a
        ELSE IF events[e].canceled THEN "EventCanceled"
        ELSE IF ~CanTransfer(lamports, buyer, events[e].price) THEN "InsufficientFunds"
        ELSE "Ok"

MintTicketResult_OffByOne(buyer, e, t, v) ==
    LET a == MintTicketAccounts(buyer, e, t, v)
    IN  IF a # "Ok" THEN a
        ELSE IF events[e].canceled THEN "EventCanceled"
        ELSE IF ~(events[e].sold <= events[e].supply) THEN "EventSoldOut"
        ELSE IF ~CanTransfer(lamports, buyer, events[e].price) THEN "InsufficientFunds"
        ELSE "Ok"

MintTicketResult_SoldOutFirst(buyer, e, t, v) ==
    LET a == MintTicketAccounts(buyer, e, t, v)
    IN  IF a # "Ok" THEN a
        ELSE IF ~(events[e].sold < events[e].supply) THEN "EventSoldOut"
        ELSE IF events[e].canceled THEN "EventCanceled"
        ELSE IF ~CanTransfer(lamports, buyer, events[e].price) THEN "InsufficientFunds"
        ELSE "Ok"

MintTicketResult(buyer, e, t, v) ==
    LET a == MintTicketAccounts(buyer, e, t, v)
    IN  IF a # "Ok" THEN a
        ELSE IF events[e].canceled THEN "EventCanceled"
        ELSE IF ~(events[e].sold < events[e].supply) THEN "EventSoldOut"
        ELSE IF ~CanTransfer(lamports, buyer, events[e].price) THEN "InsufficientFunds"
        ELSE "Ok"

\* event.sold += 1 on a u32: wraps past the largest value
AddU32(a, b) == (a + b) % (MaxU32 + 1)

\* mutants of mint_ticket
mint_ticket_IdAfterIncrement(buyer, e, t, v) ==
    LET r == MintTicketResult(buyer, e, t, v)
    IN  /\ last' = Call("mint_ticket", r)
        /\ IF r = "Ok"
           THEN /\ lamports' = Transfer(lamports, buyer, v, events[e].price)
                /\ tickets' = tickets @@ (t :>
                      [owner |-> buyer, event |-> e,
                       ticket_id |-> AddU32(events[e].sold, 1),
                       is_used |-> FALSE, refunded |-> FALSE])
                /\ events' = [events EXCEPT ![e].sold = AddU32(@, 1)]
                /\ UNCHANGED registry
           ELSE UNCHANGED ledger

mint_ticket_NoEscrow(buyer, e, t, v) ==
    LET r == MintTicketResult(buyer, e, t, v)
    IN  /\ last' = Call("mint_ticket", r)
        /\ IF r = "Ok"
           THEN /\ tickets' = tickets @@ (t :>
                      [owner |-> buyer, event |-> e, ticket_id |-> events[e].sold,
                       is_used |-> FALSE, refunded |-> FALSE])
                /\ events' = [events EXCEPT ![e].sold = AddU32(@, 1)]
                /\ UNCHANGED <<registry, lamports>>
           ELSE UNCHANGED ledger

\* the ticket and the counter are written although the payment failed
mint_ticket_NoRollback(buyer, e, t, v) ==
    LET r == MintTicketResult(buyer, e, t, v)
    IN  /\ last' = Call("mint_ticket", r)
        /\ IF r = "Ok"
           THEN /\ lamports' = Transfer(lamports, buyer, v, events[e].price)
                /\ tickets' = tickets @@ (t :>
                      [owner |-> buyer, event |-> e, ticket_id |-> events[e].sold,
                       is_used |-> FALSE, refunded |-> FALSE])
                /\ events' = [events EXCEPT ![e].sold = AddU32(@, 1)]
                /\ UNCHANGED registry
           ELSE IF r = "InsufficientFunds"
           THEN /\ tickets' = tickets @@ (t :>
                      [owner |-> buyer, event |-> e, ticket_id |-> events[e].sold,
                       is_used |-> FALSE, refunded |-> FALSE])
                /\ events' = [events EXCEPT ![e].sold = AddU32(@, 1)]
                /\ UNCHANGED <<registry, lamports>>
           ELSE UNCHANGED ledger

mint_ticket(buyer, e, t, v) ==
    LET r == MintTicketResult(buyer, e, t, v)
    IN  /\ last' = Call("mint_ticket", r)
        /\ IF r = "Ok"
           THEN /\ lamports' = Transfer(lamports, buyer, v, events[e].price)
                /\ tickets' = tickets @@ (t :>
                      [owner |-> buyer, event |-> e, ticket_id |-> events[e].sold,
                       is_used |-> FALSE, refunded |-> FALSE])
                /\ events' = [events EXCEPT ![e].sold = AddU32(@, 1)]
                /\ UNCHANGED registry
           ELSE UNCHANGED ledger

\* ------------------------------------------------------- transfer_ticket
\* mutant of TransferTicketAccounts: the owner constraint is missing
TransferTicketAccounts_NoOwnerCheck(current_owner, t) ==
    IF t \notin DOMAIN tickets THEN "AccountNotInitialized"
    ELSE "Ok"

TransferTicketAccounts(current_owner, t) ==
    IF t \notin DOMAIN tickets THEN "AccountNotInitialized"
    ELSE IF ~(tickets[t].owner = current_owner) THEN "UnauthorizedTransfer"
    ELSE "Ok"

\* mutant of TransferTicketResult: a used ticket still changes hands
TransferTicketResult_NoUsedCheck(current_owner, t) ==
    LET a == TransferTicketAccounts(current_owner, t)
    IN  IF a # "Ok" THEN a
        ELSE IF tickets[t].refunded THEN "AlreadyRefunded"
        ELSE "Ok"

TransferTicketResult(current_owner, t) ==
    LET a == TransferTicketAccounts(current_owner, t)
    IN  IF a # "Ok" THEN a
        ELSE IF tickets[t].is_used THEN "TicketAlreadyUsed"
        ELSE IF tickets[t].refunded THEN "AlreadyRefunded"
        ELSE "Ok"

transfer_ticket(current_owner, t, new_owner) ==
    LET r == TransferTicketResult(current_owner, t)
    IN  /\ last' = Call("transfer_ticket", r)
        /\ IF r = "Ok"
           THEN /\ tickets' = [tickets EXCEPT ![t].owner = new_owner]
                /\ UNCHANGED <<events, registry, lamports>>
           ELSE UNCHANGED ledger

\* -------------------------------------------------------------- check_in
\* mutant of CheckInAccounts: the ticket is not tied to the supplied event
CheckInAccounts_NoEventCheck(event_authority, e, t) ==
    IF e \notin DOMAIN events THEN "AccountNotInitialized"
    ELSE IF t \notin DOMAIN tickets THEN "AccountNotInitialized"
    ELSE IF ~(event_authority = events[e].event_authority) THEN "UnauthorizedCheckIn"
    ELSE "Ok"

CheckInAccounts(event_authority, e, t) ==
    IF e \notin DOMAIN events THEN "AccountNotInitialized"
    ELSE IF t \notin DOMAIN tickets THEN "AccountNotInitialized"
    ELSE IF ~(tickets[t].event = e) THEN "UnauthorizedCheckIn"
    ELSE IF ~(event_authority = events[e].event_authority) THEN "UnauthorizedCheckIn"
    ELSE "Ok"

\* mutant of CheckInResult: a refunded ticket is admitted
CheckInResult_NoRefundedCheck(event_authority, e, t) ==
    LET a == CheckInAccounts(event_authority, e, t)
    IN  IF a # "Ok" THEN a
        ELSE IF tickets[t].is_used THEN "AlreadyCheckedIn"
        ELSE "Ok"

\* mutant of CheckInResult: a used ticket is admitted again
CheckInResult_NoUsedCheck(event_authority, e, t) ==
    LET a == CheckInAccounts(event_authority, e, t)
    IN  IF a # "Ok" THEN a
        ELSE IF tickets[t].refunded THEN "AlreadyRefunded"
        ELSE "Ok"

CheckInResult(event_authority, e, t) ==
    LET a == CheckInAccounts(event_authority, e, t)
    IN  IF a # "Ok" THEN a
        ELSE IF tickets[t].is_used THEN "AlreadyCheckedIn"
        ELSE IF tickets[t].refunded THEN "AlreadyRefunded"
        ELSE "Ok"

check_in(event_authority, e, t) ==
    LET r == CheckInResult(event_authority, e, t)
    IN  /\ last' = Call("check_in", r)
        /\ IF r = "Ok"
           THEN /\ tickets' = [tickets EXCEPT ![t].is_used = TRUE]
                /\ UNCHANGED <<events, registry, lamports>>
           ELSE UNCHANGED ledger

\* ---------------------------------------------------------------- refund
\* Refund: `ticket_owner` is any writable account; no constraint ties it
\* to the ticket.
\* mutant of RefundAccounts: the vault is not checked against the event
RefundAccounts_AnyVault(event_authority, e, t, v, ticket_owner) ==
    IF e \notin DOMAIN events THEN "AccountNotInitialized"
    ELSE IF t \notin DOMAIN tickets THEN "AccountNotInitialized"
    ELSE IF ~(events[e].event_authority = event_authority) THEN "ConstraintRaw"
    ELSE IF ~(tickets[t].event = e) THEN "ConstraintRaw"
    ELSE "Ok"

RefundAccounts(event_authority, e, t, v, ticket_owner) ==
    IF e \notin DOMAIN events THEN "AccountNotInitialized"
    ELSE IF t \notin DOMAIN tickets THEN "AccountNotInitialized"
    ELSE IF ~(events[e].event_authority = event_authority) THEN "ConstraintRaw"
    ELSE IF ~(tickets[t].event = e) THEN "ConstraintRaw"
    ELSE IF v # VaultPda(e) THEN "ConstraintSeeds"
    ELSE "Ok"

\* mutant of RefundResult: no refund once the event is canceled
RefundResult_BlocksCanceled(event_authority, e, t, v, ticket_owner) ==
    LET a == RefundAccounts(event_authority, e, t, v, ticket_owner)
    IN  IF a # "Ok" THEN a
        ELSE IF events[e].canceled THEN "EventCanceled"
        ELSE IF tickets[t].is_used THEN "CannotRefundUsedTicket"
        ELSE IF tickets[t].refunded THEN "AlreadyRefunded"
        ELSE IF ~CanTransfer(lamports, v, events[e].price) THEN "InsufficientFunds"
        ELSE "Ok"

\* mutant of RefundResult: a refunded ticket is refunded again
RefundResult_NoRefundedCheck(event_authority, e, t, v, ticket_owner) ==
    LET a == RefundAccounts(event_authority, e, t, v, ticket_owner)
    IN  IF a # "Ok" THEN a
        ELSE IF tickets[t].is_used THEN "CannotRefundUsedTicket"
        ELSE IF ~CanTransfer(lamports, v, events[e].price) THEN "InsufficientFunds"
        ELSE "Ok"

RefundResult(event_authority, e, t, v, ticket_owner) ==
    LET a == RefundAccounts(event_authority, e, t, v, ticket_owner)
    IN  IF a # "Ok" THEN a
        ELSE IF tickets[t].is_used THEN "CannotRefundUsedTicket"
        ELSE IF tickets[t].refunded THEN "AlreadyRefunded"
        ELSE IF ~CanTransfer(lamports, v, events[e].price) THEN "InsufficientFunds"
        ELSE "Ok"

\* mutant of refund: the refunded ticket's slot is put back on sale
refund_FreesSlot(event_authority, e, t, v, ticket_owner) ==
    LET r == RefundResult(event_authority, e, t, v, ticket_owner)
    IN  /\ last' = Call("refund", r)
        /\ IF r = "Ok"
           THEN /\ lamports' = Transfer(lamports, v, ticket_owner, events[e].price)
                /\ tickets' = [tickets EXCEPT ![t].refunded = TRUE]
                /\ events' = [events EXCEPT ![e].sold = @ - 1]
                /\ UNCHANGED registry
           ELSE UNCHANGED ledger

refund(event_authority, e, t, v, ticket_owner) ==
    LET r == RefundResult(event_authority, e, t, v, ticket_owner)
    IN  /\ last' = Call("refund", r)
        /\ IF r = "Ok"
           THEN /\ lamports' = Transfer(lamports, v, ticket_owner, events[e].price)
                /\ tickets' = [tickets EXCEPT ![t].refunded = TRUE]
                /\ UNCHANGED <<events, registry>>
           ELSE UNCHANGED ledger

\* ---------------------------------------------------------- cancel_event
CancelEventAccounts(event_authority, e) ==
    IF e \notin DOMAIN events THEN "AccountNotInitialized"
    ELSE IF ~(events[e].event_authority = event_authority) THEN "ConstraintRaw"
    ELSE "Ok"

\* mutant of cancel_event: the flag is toggled
cancel_event_Toggle(event_authority, e) ==
    LET r == CancelEventAccounts(event_authority, e)
    IN  /\ last' = Call("cancel_event", r)
        /\ IF r = "Ok"
           THEN /\ events' = [events EXCEPT ![e].canceled = ~@]
                /\ UNCHANGED <<tickets, registry, lamports>>
           ELSE UNCHANGED ledger

cancel_event(event_authority, e) ==
    LET r == CancelEventAccounts(event_authority, e)
    IN  /\ last' = Call("cancel_event", r)
        /\ IF r = "Ok"
           THEN /\ events' = [events EXCEPT ![e].canceled = TRUE]
                /\ UNCHANGED <<tickets, registry, lamports>>
           ELSE UNCHANGED ledger

\* ---------------------------------------------------- register_organizer
RegisterOrganizerAccounts(organizer, r) ==
    IF r # OrganizerPda(organizer.auth) THEN "ConstraintSeeds"
    ELSE IF r \in DOMAIN registry THEN "AccountAlreadyInUse"
    ELSE "Ok"

\* mutant of register_organizer: init_if_needed, the record is rewritten
register_organizer_InitIfNeeded(organizer, r, unix_timestamp) ==
    LET res == IF r # OrganizerPda(organizer.auth) THEN "ConstraintSeeds" ELSE "Ok"
    IN  /\ last' = Call("register_organizer", res)
        /\ IF res = "Ok"
           THEN /\ registry' = (r :> [organizer |-> organizer,
                                      registered_at |-> unix_timestamp]) @@ registry
                /\ UNCHANGED <<events, tickets, lamports>>
           ELSE UNCHANGED ledger

register_organizer(organizer, r, unix_timestamp) ==
    LET res == RegisterOrganizerAccounts(organizer, r)
    IN  /\ last' = Call("register_organizer", res)
        /\ IF res = "Ok"
           THEN /\ registry' = registry @@ (r :>
                      [organizer |-> organizer, registered_at |-> unix_timestamp])
                /\ UNCHANGED <<events, tickets, lamports>>
           ELSE UNCHANGED ledger

\* ------------------------------------------------------------------ Next
\* The instructions a client may submit about the events of `orgs`: any
\* signer, any of their addresses supplied in any position; events are
\* initialized with a price in `prices` and a supply in `supplies`.
EventsOf(orgs) == {EventPda(a, i) : a \in orgs, i \in EventIds}
TicketsOf(orgs, supplies) ==
    {TicketPda(e, k) : e \in EventsOf(orgs), k \in supplies \cup {0}}
VaultsOf(orgs) == {VaultPda(e) : e \in EventsOf(orgs)}

Ticketing(orgs, prices, supplies) ==
    \/ \E s \in {Wallet(k) : k \in orgs}, e \in EventsOf(orgs), i \in EventIds,
          p \in prices, n \in supplies, name \in NameInputs, date \in DateInputs :
          initialize_event(s, e, i, p, n, name, date) /\ UNCHANGED clients
    \/ \E b \in Wallets, e \in EventsOf(orgs), t \in TicketsOf(orgs, supplies),
          v \in VaultsOf(orgs) : mint_ticket(b, e, t, v) /\ UNCHANGED clients
    \/ \E s \in Wallets, t \in TicketsOf(orgs, supplies), n \in Wallets :
          transfer_ticket(s, t, n) /\ UNCHANGED clients
    \/ \E s \in Wallets, e \in EventsOf(orgs), t \in TicketsOf(orgs, supplies) :
          check_in(s, e, t) /\ UNCHANGED clients
    \/ \E s \in Wallets, e \in EventsOf(orgs), t \in TicketsOf(orgs, supplies),
          v \in VaultsOf(orgs), d \in Wallets \cup VaultsOf(orgs) :
          refund(s, e, t, v, d) /\ UNCHANGED clients
    \/ \E s \in Wallets, e \in EventsOf(orgs) :
          cancel_event(s, e) /\ UNCHANGED clients

Registering(orgs) ==
    \E s \in {Wallet(k) : k \in orgs}, r \in {OrganizerPda(k) : k \in orgs},
       now \in Times : register_organizer(s, r, now) /\ UNCHANGED clients

\* the seven instructions on one event, of every price and supply
Next ==
    \/ Ticketing({"O"}, Prices, Supplies)
    \/ Registering({"O"})
Spec == Init /\ [][Next]_vars

\* two events of different authorities, one ticket each
NextTwo == Ticketing(Organizers, {1}, {1})
SpecTwo == Init /\ [][NextTwo]_vars

\* ------------------------------------------------- concurrent mint_ticket
\* Clients submit MaxInflight mint_ticket transactions against one event at
\* once, each with a buyer and the ticket address its client derived.  The
\* event account is writable in MintTicket (#[account(mut)]), so the ledger
\* processes the transactions one at a time, in any order.
MintTx(id, buyer, t) == [id |-> id, buyer |-> buyer, ticket |-> t]
MintBatches(e) ==
    LET choices == Wallets \X {TicketPda(e, k) : k \in 0..MaxU32}
    IN  {{MintTx(i, c[i][1], c[i][2]) : i \in 1..MaxInflight} :
            c \in [1..MaxInflight -> choices]}

SubmitMints(e, txs) ==
    /\ inflight = {} /\ batch = NoBatch
    /\ e \in DOMAIN events
    /\ inflight' = txs
    /\ batch' = [event |-> e, sold0 |-> events[e].sold, size |-> Cardinality(txs),
                 ok |-> 0,
                 payable |-> \A tx \in txs :
                                /\ tx.ticket = TicketPda(e, events[e].sold)
                                /\ CanTransfer(lamports, tx.buyer, events[e].price)]
    /\ UNCHANGED <<ledger, last>>

ProcessMint(tx) ==
    /\ tx \in inflight
    /\ mint_ticket(tx.buyer, batch.event, tx.ticket, VaultPda(batch.event))
    /\ inflight' = inflight \ {tx}
    /\ batch' = [batch EXCEPT !.ok = @ + (IF last'.result = "Ok" THEN 1 ELSE 0)]

\* before the submission: an event is created, sold and perhaps canceled
MintSetup ==
    /\ batch = NoBatch
    /\ UNCHANGED clients
    /\ \/ \E p \in Prices, n \in Supplies :
             initialize_event(Wallet("O"), EventPda("O", 1), 1, p, n,
                              Text(3, 3), Text(10, 10))
       \/ \E b \in Wallets, k \in 0..MaxU32 :
             mint_ticket(b, EventPda("O", 1), TicketPda(EventPda("O", 1), k),
                         VaultPda(EventPda("O", 1)))
       \/ cancel_event(Wallet("O"), EventPda("O", 1))

NextMint ==
    \/ MintSetup
    \/ \E e \in EventsOf({"O"}) : \E txs \in MintBatches(e) : SubmitMints(e, txs)
    \/ \E tx \in inflight : ProcessMint(tx)
SpecMint == Init /\ [][NextMint]_vars

\* ------------------------------------------------ creating events
\* Both wallets create events, of every price, name and date and of no or
\* one ticket, at any of the event addresses; A then buys and the
\* authorities cancel.
NextInit ==
    \/ \E s \in Wallets, e \in EventAddrs, i \in EventIds, p \in Prices,
          n \in {0, 1}, name \in Names, date \in Dates :
          initialize_event(s, e, i, p, n, name, date) /\ UNCHANGED clients
    \/ \E e \in DOMAIN events :
          /\ mint_ticket(Wallet("A"), e, TicketPda(e, events[e].sold), VaultPda(e))
          /\ UNCHANGED clients
    \/ \E e \in DOMAIN events :
          cancel_event(events[e].event_authority, e) /\ UNCHANGED clients
SpecInit == Init /\ [][NextInit]_vars

\* ------------------------------------------------ registering organizers
\* Both wallets register, at either registry address, while O runs an
\* event of one ticket.
NextReg ==
    \/ Ticketing({"O"}, Prices, {1})
    \/ Registering(Organizers)
SpecReg == Init /\ [][NextReg]_vars

\* ------------------------------------------------ escrow of two events
\* Two events of one ticket each.  The instructions are well addressed and
\* signed by those entitled; the account a refund is paid to is any wallet
\* or the vault of the other event.
NextEscrow ==
    \/ \E k \in Organizers, p \in Prices :
          /\ initialize_event(Wallet(k), EventPda(k, 1), 1, p, 1, Text(3, 3), Text(10, 10))
          /\ UNCHANGED clients
    \/ \E b \in Wallets, e \in DOMAIN events :
          /\ mint_ticket(b, e, TicketPda(e, events[e].sold), VaultPda(e))
          /\ UNCHANGED clients
    \/ \E t \in DOMAIN tickets, n \in Wallets :
          transfer_ticket(tickets[t].owner, t, n) /\ UNCHANGED clients
    \/ \E t \in DOMAIN tickets :
          /\ check_in(events[tickets[t].event].event_authority, tickets[t].event, t)
          /\ UNCHANGED clients
    \/ \E t \in DOMAIN tickets :
          \E d \in Wallets \cup (VaultAddrs \ {VaultPda(tickets[t].event)}) :
          /\ refund(events[tickets[t].event].event_authority, tickets[t].event, t,
                    VaultPda(tickets[t].event), d)
          /\ UNCHANGED clients
    \/ \E e \in DOMAIN events :
          cancel_event(events[e].event_authority, e) /\ UNCHANGED clients
SpecEscrow == Init /\ [][NextEscrow]_vars

\* ================================================================ claims
TicketsOfEvent(e) == {t \in DOMAIN tickets : tickets[t].event = e}
Succeeded(op) == last' = Call(op, "Ok")

\* C1: every event has 0 <= sold <= supply in every reachable state (also
\* an event of supply 0), and a step never lowers sold nor raises it by
\* more than one: the increment of mint_ticket does not wrap.
C1_SoldBounded ==
    \A e \in DOMAIN events : 0 <= events[e].sold /\ events[e].sold <= events[e].supply
C1_SoldStep ==
    \A e \in DOMAIN events :
        /\ e \in DOMAIN events'
        /\ events'[e].sold \in {events[e].sold, events[e].sold + 1}
        /\ events'[e].sold # events[e].sold => Succeeded("mint_ticket")
C1_SoldWithinSupply == []C1_SoldBounded /\ [][C1_SoldStep]_vars
\* an event filled to the largest supply, a further mint turned away
C1_Witness ==
    /\ last = Call("mint_ticket", "EventSoldOut")
    /\ \E e \in DOMAIN events : events[e].supply = MaxU32 /\ events[e].sold = MaxU32

\* C2: a successful refund moves exactly event.price from the event's vault
\* to the balance of ticket.owner and to no other account, and flips the
\* ticket's refunded flag from false to true; a refunded ticket stays
\* refunded, so this happens at most once in the life of a ticket.
C2_RefundStep ==
    /\ Succeeded("refund") =>
          \E t \in DOMAIN tickets :
              /\ ~tickets[t].refunded
              /\ tickets' = [tickets EXCEPT ![t].refunded = TRUE]
              /\ lamports' = Transfer(lamports, VaultPda(tickets[t].event),
                                      tickets[t].owner, events[tickets[t].event].price)
              /\ UNCHANGED <<events, registry>>
    /\ \A t \in DOMAIN tickets :
          tickets[t].refunded => t \in DOMAIN tickets' /\ tickets'[t].refunded
C2_RefundPaysOwner == [][C2_RefundStep]_vars

\* C3: the tickets of an event carry exactly the ids 0 .. sold-1, one
\* ticket per id, each below the supply; a mint creates the one ticket
\* whose id is the sold counter before the call; a ticket keeps its id and
\* event and is never removed, so no id is assigned twice, refund or not.
C3_IdsDense ==
    /\ \A t \in DOMAIN tickets : tickets[t].event \in DOMAIN events
    /\ \A e \in DOMAIN events :
          /\ {tickets[t].ticket_id : t \in TicketsOfEvent(e)} = 0..(events[e].sold - 1)
          /\ Cardinality(TicketsOfEvent(e)) = events[e].sold
          /\ \A t \in TicketsOfEvent(e) : tickets[t].ticket_id < events[e].supply
C3_IdsStep ==
    /\ \A t \in DOMAIN tickets :
          /\ t \in DOMAIN tickets'
          /\ tickets'[t].ticket_id = tickets[t].ticket_id
          /\ tickets'[t].event = tickets[t].event
    /\ \A t \in DOMAIN tickets' \ DOMAIN tickets :
          /\ Succeeded("mint_ticket")
          /\ DOMAIN tickets' = DOMAIN tickets \cup {t}
          /\ tickets'[t].event \in DOMAIN events
          /\ tickets'[t].ticket_id = events[tickets'[t].event].sold
C3_TicketIdsInMintOrder == []C3_IdsDense /\ [][C3_IdsStep]_vars
\* ticket 0 refunded, then ticket 1 minted
C3_Witness ==
    /\ last = Call("mint_ticket", "Ok")
    /\ \E t0, t1 \in DOMAIN tickets :
          /\ tickets[t0].event = tickets[t1].event
          /\ tickets[t0].ticket_id = 0 /\ tickets[t0].refunded
          /\ tickets[t1].ticket_id = 1 /\ ~tickets[t1].refunded /\ ~tickets[t1].is_used
          /\ tickets[t1].owner = Wallet("A")
          /\ lamports[Wallet("A")] < InitLamports

\* C4: mint_ticket on an event that is not canceled and has sold = supply
\* fails with EventSoldOut and changes no record and no balance.
C4_Step ==
    \A b \in Wallets, e \in DOMAIN events :
        ( /\ last'.op = "mint_ticket"
          /\ ~events[e].canceled
          /\ events[e].sold = events[e].supply
          /\ mint_ticket(b, e, TicketPda(e, events[e].sold), VaultPda(e)) )
        => (last' = Call("mint_ticket", "EventSoldOut") /\ UNCHANGED ledger)
C4_SoldOutMintFails == [][C4_Step]_vars
C4_Witness ==
    /\ last = Call("mint_ticket", "EventSoldOut")
    /\ \E e \in DOMAIN events :
          /\ ~events[e].canceled
          /\ events[e].sold = events[e].supply
          /\ events[e].supply = 1
          /\ lamports[VaultPda(e)] = events[e].price

\* C5: mint_ticket on a canceled event fails with EventCanceled, sold out
\* or not, and changes no record and no balance.
C5_Step ==
    \A b \in Wallets, e \in DOMAIN events :
        ( /\ last'.op = "mint_ticket"
          /\ events[e].canceled
          /\ mint_ticket(b, e, TicketPda(e, events[e].sold), VaultPda(e)) )
        => (last' = Call("mint_ticket", "EventCanceled") /\ UNCHANGED ledger)
C5_CanceledMintFails == [][C5_Step]_vars
\* canceled and sold out at once
C5_Witness ==
    /\ last = Call("mint_ticket", "EventCanceled")
    /\ \E e \in DOMAIN events :
          events[e].canceled /\ events[e].sold = events[e].supply /\ events[e].sold > 0

\* C6: a successful mint_ticket by buyer b on event e moves event.price
\* from b to e's vault, creates the one ticket (id = sold before the call,
\* owner b, event e, not used, not refunded) and raises sold by one, all in
\* one step; a buyer who cannot pay the price gets a failure and nothing
\* changes.
C6_Step ==
    \A b \in Wallets, e \in DOMAIN events, t \in TicketAddrs, v \in VaultAddrs :
        (last'.op = "mint_ticket" /\ mint_ticket(b, e, t, v)) =>
            /\ last'.result = "Ok" =>
                  /\ lamports' = Transfer(lamports, b, VaultPda(e), events[e].price)
                  /\ TicketPda(e, events[e].sold) \notin DOMAIN tickets
                  /\ tickets' = tickets @@ (TicketPda(e, events[e].sold) :>
                        [owner |-> b, event |-> e, ticket_id |-> events[e].sold,
                         is_used |-> FALSE, refunded |-> FALSE])
                  /\ events' = [events EXCEPT ![e].sold = @ + 1]
                  /\ UNCHANGED registry
            /\ lamports[b] < events[e].price =>
                  (last'.result # "Ok" /\ UNCHANGED ledger)
C6_MintEffect == [][C6_Step]_vars
\* two tickets sold, the vault holds twice the price
C6_Witness ==
    /\ last = Call("mint_ticket", "Ok")
    /\ \E e \in DOMAIN events :
          /\ events[e].sold = 2 /\ events[e].price = 1
          /\ lamports[VaultPda(e)] = 2
          /\ \A t \in TicketsOfEvent(e) : ~tickets[t].is_used /\ ~tickets[t].refunded

\* C7: the vault of an event loses lamports only in a successful refund of
\* a ticket of that event, called by the event's authority; no other
\* instruction, no failed instruction and no other caller lowers it.
C7_Step ==
    \A e \in EventAddrs :
        lamports'[VaultPda(e)] < lamports[VaultPda(e)] =>
            /\ Succeeded("refund")
            /\ e \in DOMAIN events
            /\ \E t \in TicketsOfEvent(e) : ~tickets[t].refunded /\ tickets'[t].refunded
            /\ \A s \in Wallets, e2 \in EventAddrs, t \in TicketAddrs,
                  v \in VaultAddrs, d \in Holders :
                  refund(s, e2, t, v, d) =>
                      (s = events[e].event_authority /\ e2 = e /\ v = VaultPda(e))
C7_VaultLeavesOnlyByRefund == [][C7_Step]_vars
C7_Witness ==
    /\ last = Call("refund", "Ok")
    /\ \E t \in DOMAIN tickets :
          /\ tickets[t].refunded
          /\ events[tickets[t].event].sold = 1
          /\ lamports[VaultPda(tickets[t].event)] = 0
          /\ \E t2 \in DOMAIN tickets :
                tickets[t2].event # tickets[t].event /\ ~tickets[t2].refunded

\* C8: refund by the authority on a used ticket fails with
\* CannotRefundUsedTicket, on a refunded ticket with AlreadyRefunded; no
\* balance and no record changes.
C8_Step ==
    \A t \in DOMAIN tickets :
        (last'.op = "refund" /\ (tickets[t].is_used \/ tickets[t].refunded)) =>
            \A d \in Holders :
                refund(events[tickets[t].event].event_authority, tickets[t].event, t,
                       VaultPda(tickets[t].event), d)
                => /\ tickets[t].is_used =>
                         last' = Call("refund", "CannotRefundUsedTicket")
                   /\ tickets[t].refunded => last' = Call("refund", "AlreadyRefunded")
                   /\ UNCHANGED ledger
C8_RefundRejected == [][C8_Step]_vars
C8_Witness ==
    /\ last = Call("refund", "AlreadyRefunded")
    /\ \E t, u \in DOMAIN tickets : tickets[t].refunded /\ tickets[u].is_used

\* C9: an instruction that returns a failure leaves every record and every
\* balance as it was before the call.
C9_Step == last'.result # "Ok" => UNCHANGED ledger
C9_AllOrNothing == [][C9_Step]_vars
\* a buyer without the price, after a sale
C9_Witness ==
    /\ last = Call("mint_ticket", "InsufficientFunds")
    /\ \E e \in DOMAIN events : events[e].sold = 1 /\ events[e].supply = 2

\* C10: mint_ticket transactions submitted together against one event are
\* processed one after another in some order, and in every order: the
\* event's tickets have distinct ids, sold is the value at submission plus
\* the number of mints that succeeded, sold does not pass supply, and with
\* one slot left at most one of them succeeds, exactly one when the event
\* is open and every transaction was payable and addressed to that slot.
C10_ConcurrentMints ==
    batch # NoBatch =>
        LET e == batch.event
        IN  /\ events[e].sold = batch.sold0 + batch.ok
            /\ events[e].sold <= events[e].supply
            /\ Cardinality(TicketsOfEvent(e)) = events[e].sold
            /\ \A t, u \in TicketsOfEvent(e) :
                  tickets[t].ticket_id = tickets[u].ticket_id => t = u
            /\ batch.sold0 = events[e].supply - 1 =>
                  /\ batch.ok <= 1
                  /\ (inflight = {} /\ ~events[e].canceled /\ batch.payable)
                        => batch.ok = 1
\* one slot left, two payable mints processed, one ticket sold
C10_Witness ==
    /\ batch # NoBatch /\ inflight = {} /\ batch.size >= 2
    /\ batch.payable /\ batch.ok = 1
    /\ batch.sold0 = 1 /\ events[batch.event].supply = 2
    /\ last.op = "mint_ticket" /\ last.result # "Ok"

\* C11: transfer_ticket signed by anyone but ticket.owner fails with
\* UnauthorizedTransfer, used or refunded ticket alike, and changes nothing;
\* a transfer that succeeds was signed by the owner the ticket had at that
\* moment, which after earlier transfers is the latest recipient.
C11_Step ==
    \A s \in Wallets, t \in DOMAIN tickets, n \in Wallets :
        (last'.op = "transfer_ticket" /\ transfer_ticket(s, t, n)) =>
            /\ s # tickets[t].owner =>
                  /\ last' = Call("transfer_ticket", "UnauthorizedTransfer")
                  /\ UNCHANGED ledger
            /\ last'.result = "Ok" => s = tickets[t].owner
C11_OnlyOwnerTransfers == [][C11_Step]_vars
\* O bought the ticket and gave it to A, it was checked in, and a transfer
\* was then refused as unauthorized
C11_Witness ==
    /\ last = Call("transfer_ticket", "UnauthorizedTransfer")
    /\ \E t \in DOMAIN tickets :
          /\ tickets[t].is_used
          /\ tickets[t].owner = Wallet("A")
          /\ events[tickets[t].event].price = 1
          /\ events[tickets[t].event].sold = 1
          /\ lamports[Wallet("O")] = InitLamports - 1
          /\ lamports[Wallet("A")] = InitLamports

\* C12: transfer_ticket signed by the ticket's owner fails with
\* TicketAlreadyUsed on a used ticket and with AlreadyRefunded on a refunded
\* one, changing nothing; otherwise it succeeds for any recipient, who signs
\* nothing, and sets ticket.owner to the recipient: the ticket's other
\* fields, every other ticket, the events, the registry, the vaults and all
\* balances stay as they were.
C12_Step ==
    \A t \in DOMAIN tickets, n \in Wallets :
        (last'.op = "transfer_ticket" /\ transfer_ticket(tickets[t].owner, t, n)) =>
            /\ tickets[t].is_used =>
                  (last' = Call("transfer_ticket", "TicketAlreadyUsed") /\ UNCHANGED ledger)
            /\ tickets[t].refunded =>
                  (last' = Call("transfer_ticket", "AlreadyRefunded") /\ UNCHANGED ledger)
            /\ (~tickets[t].is_used /\ ~tickets[t].refunded) =>
                  /\ last' = Call("transfer_ticket", "Ok")
                  /\ tickets' = [tickets EXCEPT ![t].owner = n]
                  /\ UNCHANGED <<events, registry, lamports>>
C12_TransferEffect == [][C12_Step]_vars
\* both wallets spent their lamports on one ticket each, and O now holds
\* both tickets, the first of them used
C12_Witness ==
    /\ last = Call("transfer_ticket", "Ok")
    /\ \E t, u \in DOMAIN tickets :
          /\ tickets[t].ticket_id = 1 /\ tickets[t].owner = Wallet("O")
          /\ ~tickets[t].is_used /\ ~tickets[t].refunded
          /\ tickets[u].ticket_id = 0 /\ tickets[u].owner = Wallet("O")
          /\ tickets[u].is_used
          /\ events[tickets[t].event].price = 1
          /\ lamports[Wallet("O")] = 0 /\ lamports[Wallet("A")] = 0
          /\ lamports[VaultPda(tickets[t].event)] = 2

\* C13: a ticket whose is_used is true keeps it true and is never removed,
\* whatever instruction runs; no check_in on a used ticket succeeds, and
\* the one by the authority of the ticket's event fails with
\* AlreadyCheckedIn; check_in by the authority on a refunded ticket fails
\* with AlreadyRefunded; none of these changes anything.
C13_Step ==
    /\ \A t \in DOMAIN tickets :
          tickets[t].is_used => (t \in DOMAIN tickets' /\ tickets'[t].is_used)
    /\ \A t \in DOMAIN tickets :
          (last'.op = "check_in" /\ (tickets[t].is_used \/ tickets[t].refunded)) =>
              \A s \in Wallets, e \in EventAddrs :
                  check_in(s, e, t) =>
                      LET authorized == /\ e = tickets[t].event
                                        /\ s = events[e].event_authority
                      IN  /\ tickets[t].is_used =>
                                /\ last'.result # "Ok"
                                /\ UNCHANGED ledger
                                /\ authorized =>
                                      last' = Call("check_in", "AlreadyCheckedIn")
                          /\ (tickets[t].refunded /\ authorized) =>
                                /\ last' = Call("check_in", "AlreadyRefunded")
                                /\ UNCHANGED ledger
C13_CheckInIrreversible == [][C13_Step]_vars
\* a used ticket presented again, next to a refunded one
C13_Witness ==
    /\ last = Call("check_in", "AlreadyCheckedIn")
    /\ \E t, u \in DOMAIN tickets :
          /\ tickets[t].is_used /\ tickets[t].ticket_id = 1
          /\ tickets[u].refunded /\ tickets[u].ticket_id = 0

\* C14: on existing events and tickets, check_in fails with
\* UnauthorizedCheckIn when the signer is not the supplied event's
\* authority or the ticket belongs to another event; refund fails under
\* the same two conditions and cancel_event when the signer is not the
\* event's authority; each of these failures changes no record and no
\* balance.  Stated per step: a check_in step with another outcome, and a
\* refund or cancel_event step that succeeded, is the step of no
\* unauthorized call, and the failed ones leave the ledger as it was.
C14_Unauthorized(s, e, t) == s # events[e].event_authority \/ tickets[t].event # e
C14_Step ==
    /\ last'.op = "check_in" =>
          IF last'.result = "UnauthorizedCheckIn" THEN UNCHANGED ledger
          ELSE \A s \in Wallets, e \in DOMAIN events, t \in DOMAIN tickets :
                  C14_Unauthorized(s, e, t) => ~check_in(s, e, t)
    /\ last'.op = "refund" =>
          IF last'.result # "Ok" THEN UNCHANGED ledger
          ELSE \A s \in Wallets, e \in DOMAIN events, t \in DOMAIN tickets :
                  C14_Unauthorized(s, e, t) =>
                      \A v \in VaultAddrs, d \in Holders : ~refund(s, e, t, v, d)
    /\ last'.op = "cancel_event" =>
          IF last'.result # "Ok" THEN UNCHANGED ledger
          ELSE \A s \in Wallets, e \in DOMAIN events :
                  s # events[e].event_authority => ~cancel_event(s, e)
C14_OnlyAuthorityActs == [][C14_Step]_vars
\* two events with a ticket each, both still open and unused after a
\* check_in was turned away
C14_Witness ==
    /\ last = Call("check_in", "UnauthorizedCheckIn")
    /\ \E t, u \in DOMAIN tickets :
          /\ tickets[t].event # tickets[u].event
          /\ ~tickets[t].is_used /\ ~tickets[u].is_used
          /\ ~events[tickets[t].event].canceled
          /\ ~events[tickets[u].event].canceled

\* C15: a canceled event stays canceled and is never removed, whatever
\* instruction runs; canceled turns true only in a successful cancel_event;
\* cancel_event by the event's authority always succeeds and changes
\* nothing but that event's canceled flag, so on an event already canceled
\* it changes nothing at all.
C15_Step ==
    /\ \A e \in DOMAIN events :
          /\ events[e].canceled => (e \in DOMAIN events' /\ events'[e].canceled)
          /\ (~events[e].canceled /\ e \in DOMAIN events' /\ events'[e].canceled)
                => Succeeded("cancel_event")
    /\ \A e \in DOMAIN events :
          (last'.op = "cancel_event" /\ cancel_event(events[e].event_authority, e)) =>
              /\ last' = Call("cancel_event", "Ok")
              /\ events' = [events EXCEPT ![e].canceled = TRUE]
              /\ UNCHANGED <<tickets, registry, lamports>>
              /\ events[e].canceled => UNCHANGED ledger
C15_CancelOneWay == [][C15_Step]_vars
\* canceled with one of two tickets sold, that ticket used
C15_Witness ==
    /\ last = Call("cancel_event", "Ok")
    /\ \E e \in DOMAIN events :
          /\ events[e].canceled /\ events[e].sold = 1 /\ events[e].supply = 2
          /\ \E t \in TicketsOfEvent(e) : tickets[t].is_used

\* C16: for a ticket that is neither used nor refunded, canceled event or
\* not: check_in by the event's authority succeeds and sets is_used;
\* refund by the authority, the vault holding the price, succeeds, pays
\* the price out of the vault and sets refunded; transfer_ticket by the
\* owner succeeds and sets the owner; each with no other change, so a
\* cancellation takes none of them away.
C16_Step ==
    \A t \in DOMAIN tickets :
        LET e == tickets[t].event
            authority == events[e].event_authority
        IN  (~tickets[t].is_used /\ ~tickets[t].refunded) =>
              /\ (last'.op = "check_in" /\ check_in(authority, e, t)) =>
                    /\ last' = Call("check_in", "Ok")
                    /\ tickets' = [tickets EXCEPT ![t].is_used = TRUE]
                    /\ UNCHANGED <<events, registry, lamports>>
              /\ (last'.op = "refund" /\ lamports[VaultPda(e)] >= events[e].price) =>
                    \A d \in Holders :
                        refund(authority, e, t, VaultPda(e), d) =>
                            /\ last' = Call("refund", "Ok")
                            /\ tickets' = [tickets EXCEPT ![t].refunded = TRUE]
                            /\ lamports' = Transfer(lamports, VaultPda(e), d, events[e].price)
                            /\ UNCHANGED <<events, registry>>
              /\ last'.op = "transfer_ticket" =>
                    \A n \in Wallets :
                        transfer_ticket(tickets[t].owner, t, n) =>
                            /\ last' = Call("transfer_ticket", "Ok")
                            /\ tickets' = [tickets EXCEPT ![t].owner = n]
                            /\ UNCHANGED <<events, registry, lamports>>
C16_CancelBlocksOnlyMint == [][C16_Step]_vars
\* the refund came after the cancellation: the only ticket of a canceled
\* event, paid back out of the vault
C16_Witness ==
    /\ last = Call("refund", "Ok")
    /\ \E e \in DOMAIN events :
          /\ events[e].canceled /\ events[e].sold = 1 /\ events[e].price = 1
          /\ lamports[VaultPda(e)] = 0
          /\ \A t \in TicketsOfEvent(e) : tickets[t].refunded /\ ~tickets[t].is_used

\* C17: a refund step changes no event record (sold stays) and removes no
\* ticket; a refunded ticket's record is kept by every later step; and on
\* an event with sold = supply and refunded tickets, mint_ticket fails,
\* with EventSoldOut unless the event is canceled, changing nothing.
C17_Step ==
    /\ last'.op = "refund" => (UNCHANGED events /\ DOMAIN tickets' = DOMAIN tickets)
    /\ \A t \in DOMAIN tickets : tickets[t].refunded => t \in DOMAIN tickets'
    /\ last'.op = "mint_ticket" =>
          \A b \in Wallets, e \in DOMAIN events :
              ( /\ events[e].sold = events[e].supply
                /\ \E t \in TicketsOfEvent(e) : tickets[t].refunded
                /\ mint_ticket(b, e, TicketPda(e, events[e].sold), VaultPda(e)) )
              => /\ last'.result # "Ok"
                 /\ ~events[e].canceled => last'.result = "EventSoldOut"
                 /\ UNCHANGED ledger
C17_RefundKeepsSlot == [][C17_Step]_vars
\* both tickets of a sold-out event refunded, and a buyer with the price
\* in hand turned away
C17_Witness ==
    /\ last = Call("mint_ticket", "EventSoldOut")
    /\ \E e \in DOMAIN events :
          /\ events[e].sold = 2 /\ events[e].supply = 2 /\ events[e].price = 1
          /\ \A t \in TicketsOfEvent(e) : tickets[t].refunded
          /\ \E b \in Wallets : lamports[b] >= 1

\* C18: initialize_event by a signer at the address derived from the
\* signer and event_id, with a name and a date within the limits: when no
\* event is there it succeeds and adds exactly the event with
\* event_authority = signer, sold = 0, canceled = false and the price,
\* supply, event_id, name and date given, other events (the same event_id
\* of another authority too) staying as they are; when an event is there
\* it fails, whatever the arguments, and every event, the existing one with
\* its sold and canceled, is unchanged.  Every event sits at the address of
\* its own authority and event_id.  Stated per step: a successful step is
\* the step of accepted calls only and has that effect; a failed step
\* changes nothing and is the step of no call that had to be accepted.
C18_AtOwnAddress ==
    \A e \in DOMAIN events :
        e = EventPda(events[e].event_authority.auth, events[e].event_id)
C18_Accepted(e, name, date) ==
    /\ e \notin DOMAIN events
    /\ name.bytes <= MAX_NAME_LEN
    /\ date.bytes <= MAX_DATE_LEN
C18_Step ==
    last'.op = "initialize_event" =>
        IF last'.result = "Ok"
        THEN \A s \in Wallets, i \in EventIds, p \in Prices, n \in {0, 1},
                name \in Names, date \in Dates :
                 LET e == EventPda(s.auth, i)
                 IN  initialize_event(s, e, i, p, n, name, date) =>
                       /\ C18_Accepted(e, name, date)
                       /\ DOMAIN events' = DOMAIN events \cup {e}
                       /\ events'[e] =
                             [event_authority |-> s, price |-> p, supply |-> n,
                              sold |-> 0, canceled |-> FALSE, event_id |-> i,
                              name |-> name, date |-> date]
                       /\ \A x \in DOMAIN events : events'[x] = events[x]
                       /\ UNCHANGED <<tickets, registry, lamports>>
        ELSE /\ UNCHANGED ledger
             /\ \A s \in Wallets, i \in EventIds :
                   EventPda(s.auth, i) \notin DOMAIN events =>
                       \A name \in Names, date \in Dates :
                           C18_Accepted(EventPda(s.auth, i), name, date) =>
                               \A p \in Prices, n \in {0, 1} :
                                   ~initialize_event(s, EventPda(s.auth, i), i, p, n,
                                                     name, date)
C18_InitializeEvent == []C18_AtOwnAddress /\ [][C18_Step]_vars
\* O's event 1 is sold out and canceled, A's event 1 was created next to
\* it, and a second initialize_event was then refused
C18_Witness ==
    /\ last = Call("initialize_event", "AccountAlreadyInUse")
    /\ EventPda("O", 1) \in DOMAIN events /\ EventPda("A", 1) \in DOMAIN events
    /\ events[EventPda("O", 1)].sold = 1 /\ events[EventPda("O", 1)].canceled
    /\ events[EventPda("A", 1)].sold = 0 /\ ~events[EventPda("A", 1)].canceled
    /\ events[EventPda("A", 1)].name = Text(MAX_NAME_LEN, MAX_NAME_LEN)
    /\ events[EventPda("A", 1)].price # events[EventPda("O", 1)].price

\* The length rule of initialize_event, lengths counted in `unit`
\* ("chars" or "bytes"): at a free, correctly derived address a name over
\* MAX_NAME_LEN gives NameTooLong (the date too long or not), a date over
\* MAX_DATE_LEN under a name within the limit gives DateTooLong, and no
\* event exists at the address afterwards; a name and a date within the
\* limits are never answered with either error, at any address.
C19_Rule(unit) ==
    last'.op = "initialize_event" =>
        \A s \in Wallets, i \in EventIds, name \in Names, date \in Dates :
            LET e == EventPda(s.auth, i)
                rejected ==
                    IF name[unit] > MAX_NAME_LEN THEN "NameTooLong"
                    ELSE IF date[unit] > MAX_DATE_LEN THEN "DateTooLong"
                    ELSE "Ok"
            IN  IF rejected # "Ok"
                THEN e \notin DOMAIN events =>
                        \A p \in Prices, n \in {0, 1} :
                            initialize_event(s, e, i, p, n, name, date) =>
                                /\ last'.result = rejected
                                /\ e \notin DOMAIN events'
                                /\ UNCHANGED ledger
                ELSE last'.result \in {"NameTooLong", "DateTooLong"} =>
                        \A x \in EventAddrs, p \in Prices, n \in {0, 1} :
                            ~initialize_event(s, x, i, p, n, name, date)

\* C19 as claimed: the limits are 50 and 30 characters.
C19_LimitsInCharacters == [][C19_Rule("chars")]_vars
\* C19 as amended: the limits are 50 and 30 bytes of the UTF-8 encoding.
C19_LimitsInBytes == [][C19_Rule("bytes")]_vars
\* O's event carries a name of exactly MAX_NAME_LEN bytes and a date of
\* exactly MAX_DATE_LEN; a later initialize_event with a date too long left
\* no event of A
C19_Witness ==
    /\ last = Call("initialize_event", "DateTooLong")
    /\ EventPda("A", 1) \notin DOMAIN events
    /\ EventPda("O", 1) \in DOMAIN events
    /\ events[EventPda("O", 1)].name = Text(MAX_NAME_LEN, MAX_NAME_LEN)
    /\ events[EventPda("O", 1)].date = Text(MAX_DATE_LEN, MAX_DATE_LEN)

\* C20: register_organizer by a signer at the signer's registry address
\* succeeds when no record is there and adds exactly the record (organizer
\* = signer, registered_at = the clock's timestamp); when a record is there
\* it fails and changes nothing; a record, once there, is kept unchanged by
\* every step, and only register_organizer touches the registry; and the
\* other six instructions succeed on their own preconditions, registered
\* signer or not.
C20_RegistryStep ==
    /\ \A r \in DOMAIN registry : r \in DOMAIN registry' /\ registry'[r] = registry[r]
    /\ last'.op # "register_organizer" => UNCHANGED registry
    /\ last'.op = "register_organizer" =>
          \A s \in Wallets, now \in Times :
              LET r == OrganizerPda(s.auth)
              IN  register_organizer(s, r, now) =>
                    IF r \in DOMAIN registry
                    THEN last'.result # "Ok" /\ UNCHANGED ledger
                    ELSE /\ last'.result = "Ok"
                         /\ registry' = registry @@
                               (r :> [organizer |-> s, registered_at |-> now])
                         /\ UNCHANGED <<events, tickets, lamports>>
C20_OthersStep ==
    /\ last'.op = "initialize_event" =>
          \A s \in Wallets, i \in EventIds, p \in Prices :
              ( /\ EventPda(s.auth, i) \notin DOMAIN events
                /\ initialize_event(s, EventPda(s.auth, i), i, p, 1, Text(3, 3), Text(10, 10)) )
              => last'.result = "Ok"
    /\ last'.op = "mint_ticket" =>
          \A b \in Wallets, e \in DOMAIN events :
              ( /\ ~events[e].canceled /\ events[e].sold < events[e].supply
                /\ lamports[b] >= events[e].price
                /\ mint_ticket(b, e, TicketPda(e, events[e].sold), VaultPda(e)) )
              => last'.result = "Ok"
    /\ last'.op = "cancel_event" =>
          \A e \in DOMAIN events :
              cancel_event(events[e].event_authority, e) => last'.result = "Ok"
    /\ \A t \in DOMAIN tickets :
          LET e == tickets[t].event
              authority == events[e].event_authority
          IN  (~tickets[t].is_used /\ ~tickets[t].refunded) =>
                /\ (last'.op = "check_in" /\ check_in(authority, e, t))
                      => last'.result = "Ok"
                /\ last'.op = "transfer_ticket" =>
                      \A n \in Wallets :
                          transfer_ticket(tickets[t].owner, t, n) => last'.result = "Ok"
                /\ (last'.op = "refund" /\ lamports[VaultPda(e)] >= events[e].price) =>
                      \A d \in Holders :
                          refund(authority, e, t, VaultPda(e), d) => last'.result = "Ok"
C20_RegisterOnce == [][C20_RegistryStep /\ C20_OthersStep]_vars
\* A is registered and has just been refused a second registration; O,
\* never registered, has created an event, sold its ticket and canceled
C20_Witness ==
    /\ last = Call("register_organizer", "AccountAlreadyInUse")
    /\ DOMAIN registry = {OrganizerPda("A")}
    /\ registry[OrganizerPda("A")].organizer = Wallet("A")
    /\ \E e \in DOMAIN events :
          /\ events[e].event_authority = Wallet("O")
          /\ events[e].sold = 1 /\ events[e].canceled

\* C21: the vault of every event holds exactly event.price times the
\* number of its tickets sold and not refunded; hence a refund by the
\* authority of a ticket neither used nor refunded does not fail for lack
\* of funds in the vault.
C21_Refunded(e) == {t \in TicketsOfEvent(e) : tickets[t].refunded}
C21_VaultEquation ==
    \A e \in DOMAIN events :
        lamports[VaultPda(e)] =
            events[e].price * (events[e].sold - Cardinality(C21_Refunded(e)))
C21_RefundFunded ==
    \A t \in DOMAIN tickets :
        (last'.op = "refund" /\ ~tickets[t].is_used /\ ~tickets[t].refunded) =>
            \A d \in Holders :
                refund(events[tickets[t].event].event_authority, tickets[t].event, t,
                       VaultPda(tickets[t].event), d)
                => last'.result # "InsufficientFunds"
C21_EscrowSolvency == []C21_VaultEquation /\ [][C21_RefundFunded]_vars

\* C22: no ticket is both used and refunded, in any reachable state; and a
\* ticket that is used or refunded is kept, with the same owner, is_used
\* and refunded, by every step.
C22_NotBoth == \A t \in DOMAIN tickets : ~(tickets[t].is_used /\ tickets[t].refunded)
C22_Step ==
    \A t \in DOMAIN tickets :
        (tickets[t].is_used \/ tickets[t].refunded) =>
            /\ t \in DOMAIN tickets'
            /\ tickets'[t].owner = tickets[t].owner
            /\ tickets'[t].is_used = tickets[t].is_used
            /\ tickets'[t].refunded = tickets[t].refunded
C22_UsedOrRefundedIsTerminal == []C22_NotBoth /\ [][C22_Step]_vars
\* one ticket used, the other refunded, and a transfer of the used one by
\* its owner turned away
C22_Witness ==
    /\ last = Call("transfer_ticket", "TicketAlreadyUsed")
    /\ \E t, u \in DOMAIN tickets :
          /\ tickets[t].is_used /\ ~tickets[t].refunded
          /\ tickets[u].refunded /\ ~tickets[u].is_used
          /\ tickets[t].owner # tickets[u].owner

\* C23: every step keeps every event, with its event_authority, price,
\* supply, event_id, name and date, and every ticket, with its event and
\* ticket_id; a successful mint escrows the price of the ticket's event
\* and a successful refund pays out the price of the ticket's event, which
\* is therefore the amount escrowed for that ticket.
C23_Step ==
    /\ \A e \in DOMAIN events :
          /\ e \in DOMAIN events'
          /\ events'[e].event_authority = events[e].event_authority
          /\ events'[e].price = events[e].price
          /\ events'[e].supply = events[e].supply
          /\ events'[e].event_id = events[e].event_id
          /\ events'[e].name = events[e].name
          /\ events'[e].date = events[e].date
    /\ \A t \in DOMAIN tickets :
          /\ t \in DOMAIN tickets'
          /\ tickets'[t].event = tickets[t].event
          /\ tickets'[t].ticket_id = tickets[t].ticket_id
    /\ Succeeded("mint_ticket") =>
          \E t \in DOMAIN tickets' \ DOMAIN tickets :
              LET e == tickets'[t].event
              IN  lamports' = Transfer(lamports, tickets'[t].owner, VaultPda(e),
                                       events'[e].price)
    /\ Succeeded("refund") =>
          \E t \in DOMAIN tickets :
              LET e == tickets[t].event
              IN  /\ ~tickets[t].refunded /\ tickets'[t].refunded
                  /\ \E d \in Holders :
                        lamports' = Transfer(lamports, VaultPda(e), d, events[e].price)
C23_ConfigurationImmutable == [][C23_Step]_vars
\* two tickets sold at price 1, one of them just refunded: the vault is
\* left with the escrow of the other
C23_Witness ==
    /\ last = Call("refund", "Ok")
    /\ \E e \in DOMAIN events :
          /\ events[e].price = 1 /\ events[e].sold = 2
          /\ lamports[VaultPda(e)] = 1
          /\ \E t, u \in TicketsOfEvent(e) :
                tickets[t].refunded /\ ~tickets[u].refunded /\ ~tickets[u].is_used

====
